---- MODULE Spec2Model ----
(***************************************************************************)
(* Model of becca/core/brain.py: the Brain control loop (sense_act_learn), *)
(* its dual-file pickle backup (backup) and its restore (restore).         *)
(*                                                                         *)
(* The process that owns the live brain can be interrupted while a backup  *)
(* is being written; the two pickle files outlive the process, and a new   *)
(* process constructs a fresh Brain and may call restore on it.            *)
(*                                                                         *)
(* Level and Affect (becca/core/level.py, becca/core/affect.py) are        *)
(* collaborators whose code is not part of the modelled file; they are     *)
(* modelled from the written specification of their interface.             *)
(***************************************************************************)
EXTENDS Integers, Sequences, FiniteSets, TLC

\* ------------------------------------------------------------------ bounds
\* The age up to which a brain is stepped.
MaxTimestep == 3

\* The source sets backup_interval = 1e5 (brain.py:67).  The model is checked
\* with a scaled-down interval so that the periodic backup happens within
\* MaxTimestep; nothing below depends on its value.
BackupInterval == 2

\* (num_sensors, num_actions) pairs a Brain is constructed with.
Configs == {<<1, 1>>, <<2, 1>>, <<1, 2>>}

\* The pair the first process constructs its Brain with.
FirstConfig == <<1, 1>>

\* The number of backup runs and of process restarts in one behaviour.
MaxEvents == 3

\* The tallest hierarchy of levels the two passes of sense_act_learn are
\* followed through.
MaxHeight == 3

\* ----------------------------------------------------------------- vectors
Zeros(n) == [i \in 1..n |-> 0]

Ones(n) == [i \in 1..n |-> 1]

\* ------------------------------------------------------------------ inputs
\* Reward values handed to sense_act_learn.
Rewards == {1}

\* Sensor arrays of n elements handed to sense_act_learn.
SensorReadings(n) == {Zeros(n), Ones(n)}

\* Binary vectors of n elements a level can decide on as its element goals.
GoalVectors(n) == {Zeros(n), Ones(n)}

\* ------------------------------------------------ collaborators (interface)
\* Affect(): the tracker of the reward stream.
AffectNew == [cumulative_reward |-> 0]

\* affect.update(reward): new tracker state.
AffectUpdate(affect, reward) ==
    [affect EXCEPT !.cumulative_reward = @ + reward]

\* The satisfaction that affect.update returns.
AffectSatisfaction(affect) == affect.cumulative_reward

\* affect.visualize(timestep, name, log_dir): the lifetime average reward
\* per time step (in hundredths).
AffectVisualize(affect, timestep) ==
    IF timestep = 0 THEN 0 ELSE (affect.cumulative_reward * 100) \div timestep

\* Level(level_index, num_elements, num_sequences).
LevelNew(level_index, num_elements, num_sequences) ==
    [level_index    |-> level_index,
     num_elements   |-> num_elements,
     num_sequences  |-> num_sequences,
     element_goals  |-> Zeros(num_elements),
     sequence_goals |-> Zeros(num_sequences)]

\* level.step(element_activities, reward, satisfaction): the level after the
\* step, holding the element goals it decided on (goals), and the sequence
\* activities it returns.
LevelStep(level, element_activities, reward, satisfaction, goals) ==
    [level |-> [level EXCEPT !.element_goals = goals],
     out   |-> [j \in 1..level.num_sequences |->
                  IF Len(element_activities) = 0 THEN 0
                  ELSE element_activities[((j - 1) % Len(element_activities)) + 1]]]

\* ------------------------------------------------------------ Brain.__init__
\* self.num_actions = num_actions + 1: the last is the 'do nothing' action.
NumActionsAsConfigured(num_actions) == num_actions

NumActions(num_actions) == num_actions + 1

\* Brain(num_sensors, num_actions): the state after construction.
New(num_sensors, num_actions) ==
    [num_sensors     |-> num_sensors,
     num_actions     |-> NumActions(num_actions),
     backup_interval |-> BackupInterval,
     name            |-> "test_brain",
     log_dir         |-> "log",
     pickle_filename |-> "log/test_brain.pickle",
     affect          |-> AffectNew,
     satisfaction    |-> 0,
     levels          |-> << LevelNew(0, num_sensors + (num_actions + 1),
                                     3 * (num_sensors + (num_actions + 1))) >>,
     actions         |-> Zeros(num_actions + 1),
     timestep        |-> 0]

\* -------------------------------------------------------------------- pickle
\* The attributes of a Brain, in the order they are written to a pickle.
Fields ==
    << "num_sensors", "num_actions", "backup_interval", "name", "log_dir",
       "pickle_filename", "affect", "satisfaction", "levels", "actions",
       "timestep" >>

\* The opcode that ends a pickle.
STOP == << "STOP" >>

\* pickle.dump(self, f): the items written, attribute by attribute, then STOP.
Pickle(self) ==
    [i \in 1..Len(Fields) |-> << Fields[i], self[Fields[i]] >>] \o << STOP >>

\* A pickle is complete when it ends with the STOP opcode.
Complete(bytes) == Len(bytes) > 0 /\ bytes[Len(bytes)] = STOP

ItemOf(bytes, f) ==
    bytes[CHOOSE i \in 1..(Len(bytes) - 1) : bytes[i][1] = f]

\* pickle.load(f) on a complete pickle: the object rebuilt from its items.
UnpickleTimestepLost(bytes) ==
    [f \in {Fields[i] : i \in 1..Len(Fields)} |->
        IF f = "timestep" THEN 0 ELSE ItemOf(bytes, f)[2]]

Unpickle(bytes) ==
    [f \in {Fields[i] : i \in 1..Len(Fields)} |-> ItemOf(bytes, f)[2]]

\* --------------------------------------------------------------------- files
NoFile == [exists |-> FALSE, bytes |-> << >>]

File(bytes) == [exists |-> TRUE, bytes |-> bytes]

\* Where a write that stops before its end is cut: the file opened with 'wb'
\* is still empty, or holds all but what is written last.  Every cut in
\* between leaves a file the program treats like the second: pickle.load
\* reads on until the STOP opcode.
Cuts(bytes) == {0, Len(bytes) - 1}

\* What the file holds after a write that stopped before its end.
Truncations(bytes) == {File(SubSeq(bytes, 1, k)) : k \in Cuts(bytes)}

\* -------------------------------------------------------------------- state
VARIABLES
    brain,          \* the Brain object the running process holds
    pc,             \* "running", or how the process ended
    primary_file,   \* the file at pickle_filename
    backup_file,    \* the file at pickle_filename + '.bak'
    last_call,      \* the last call: its name, arguments, result or exception
    config,         \* <<num_sensors, num_actions>> the process was started with
    this_save,      \* the most recent run of backup
    ever_saved,     \* some run of backup returned success = True
    events          \* the backup runs and process restarts so far

vars ==
    << brain, pc, primary_file, backup_file, last_call, config, this_save,
       ever_saved, events >>

NoSave == [stopped |-> "never", success |-> FALSE, snap |-> << >>]

\* ------------------------------------------------------------- Brain.backup
\* The exception classes derived from pickle.PickleError.
PickleErrors == {"PickleError", "PicklingError", "UnpicklingError"}

\* The except clauses of backup.
BackupCaughtIOErrorOnly(exc) == exc = "IOError"

BackupCaught(exc) == exc = "IOError" \/ exc \in PickleErrors

\* What can stop pickle.dump part way: a failed write, an object that cannot
\* be pickled, or the user's ^C.
DumpStops == {"IOError", "PicklingError", "KeyboardInterrupt"}

\* The primary file once the first with-block has been left: written in full
\* and closed before the second file is opened.
PrimaryStillBuffered(self) ==
    File(SubSeq(Pickle(self), 1, Len(Pickle(self)) - 1))

PrimaryAfterFirstWrite(self) == File(Pickle(self))

\* The backup file once the second with-block has been left: written in full
\* and closed before the else clause sets success.
BackupStillBuffered(self) ==
    File(SubSeq(Pickle(self), 1, Len(Pickle(self)) - 1))

BackupAfterSecondWrite(self) == File(Pickle(self))

\* The backup file while the first write is under way: not opened yet.
BackupOpenedEarly(file) == File(<< >>)

BackupDuringFirstWrite(file) == file

\* The runs of the try block of backup: the files each leaves behind, the
\* write it stopped in, and the exception that stopped it.
BackupRuns(self, primary, backup) ==
    LET data == Pickle(self) IN
        \* open(self.pickle_filename, 'wb') fails
        { [primary |-> primary, backup |-> BackupDuringFirstWrite(backup),
           stopped |-> "first", exc |-> "IOError"] }
      \cup
        \* the first pickle.dump stops part way
        { [primary |-> p, backup |-> BackupDuringFirstWrite(backup),
           stopped |-> "first", exc |-> e] :
             p \in Truncations(data), e \in DumpStops }
      \cup
        \* open(pickle_filename + '.bak', 'wb') fails
        { [primary |-> PrimaryAfterFirstWrite(self), backup |-> backup,
           stopped |-> "second", exc |-> "IOError"] }
      \cup
        \* the second pickle.dump stops part way
        { [primary |-> PrimaryAfterFirstWrite(self), backup |-> b,
           stopped |-> "second", exc |-> e] :
             b \in Truncations(data), e \in DumpStops }
      \cup
        \* both writes complete
        { [primary |-> PrimaryAfterFirstWrite(self),
           backup  |-> BackupAfterSecondWrite(self),
           stopped |-> "none", exc |-> "none"] }

\* backup returns unless the exception is none of those it catches.
BackupReturns(run) == run.exc = "none" \/ BackupCaught(run.exc)

\* The value of success: True only in the else clause of the try.
BackupSuccessWhatever(run) == TRUE

BackupSuccess(run) == run.exc = "none"

\* What the process is left as by an exception nobody catches.
Ended(exc) == IF exc = "KeyboardInterrupt" THEN "interrupted" ELSE "crashed"

\* The effect of one run of backup on the files and on the process.
RunBackup(self, run) ==
    /\ events < MaxEvents
    /\ events' = events + 1
    /\ primary_file' = run.primary
    /\ backup_file' = run.backup
    /\ this_save' = [stopped |-> run.stopped,
                     success |-> BackupReturns(run) /\ BackupSuccess(run),
                     snap    |-> self]
    /\ ever_saved' = (ever_saved \/ (BackupReturns(run) /\ BackupSuccess(run)))
    /\ pc' = IF BackupReturns(run) THEN "running" ELSE Ended(run.exc)
    /\ UNCHANGED config

\* brain.backup() called by the world.
Backup ==
    /\ pc = "running"
    /\ \E run \in BackupRuns(brain, primary_file, backup_file) :
         /\ RunBackup(brain, run)
         /\ last_call' = [op       |-> "backup",
                          returned |-> BackupReturns(run) /\ BackupSuccess(run),
                          raised   |-> IF BackupReturns(run) THEN "none"
                                       ELSE run.exc]
    /\ UNCHANGED brain

\* ---------------------------------------------------- Brain.sense_act_learn
\* self.timestep += 1
TimestepSkips(timestep) == timestep + 2

NextTimestep(timestep) == timestep + 1

\* element_activities = np.concatenate((sensors, self.actions))
ActionsFirst(sensors, actions) == actions \o sensors

ElementActivities(sensors, actions) == sensors \o actions

\* for level in self.levels: level.step(...), each level's sequence
\* activities being the element activities of the next; from level i on.
RECURSIVE BottomUp(_, _, _, _, _, _)
BottomUp(levels, i, element_activities, reward, satisfaction, goals) ==
    IF i > Len(levels) THEN levels
    ELSE LET st == LevelStep(levels[i], element_activities, reward,
                             satisfaction, goals[i])
         IN  BottomUp([levels EXCEPT ![i] = st.level], i + 1, st.out,
                      reward, satisfaction, goals)

\* for i in range(len(self.levels) - 1)[::-1]: levels[i].sequence_goals =
\* levels[i + 1].element_goals; from (1-based) level i down.
PassGoalFromBelow(levels, i) ==
    [levels EXCEPT ![i + 1].sequence_goals = levels[i].element_goals]

PassGoal(levels, i) ==
    [levels EXCEPT ![i].sequence_goals = levels[i + 1].element_goals]

RECURSIVE TopDown(_, _)
TopDown(levels, i) ==
    IF i < 1 THEN levels
    ELSE TopDown(PassGoal(levels, i), i - 1)

\* The element goals the levels can decide on in one step: levels[0] decides
\* on a full binary action vector of length num_actions, a level above on a
\* vector as wide as its element activities.
GoalWidth(self, i) ==
    IF i = 1 THEN self.num_actions ELSE self.levels[i].num_elements

GoalChoices(self) ==
    LET height == Len(self.levels)
        any    == UNION { GoalVectors(GoalWidth(self, i)) : i \in 1..height }
    IN  { goals \in [1..height -> any] :
            \A i \in 1..height : goals[i] \in GoalVectors(GoalWidth(self, i)) }

\* The brain after the statements up to the choice of actions.
Stepped(self, sensors, reward, goals) ==
    LET affect       == AffectUpdate(self.affect, reward)
        satisfaction == AffectSatisfaction(affect)
        up     == BottomUp(self.levels, 1,
                           ElementActivities(sensors, self.actions),
                           reward, satisfaction, goals)
        levels == TopDown(up, Len(up) - 1)
    IN  [self EXCEPT !.timestep     = NextTimestep(self.timestep),
                     !.affect       = affect,
                     !.satisfaction = satisfaction,
                     !.levels       = levels,
                     !.actions      = levels[1].element_goals]

\* if (self.timestep % self.backup_interval) == 0
BackupDueBeforeIncrement(self) ==
    ((self.timestep - 1) % self.backup_interval) = 0

BackupDue(self) == (self.timestep % self.backup_interval) = 0

\* return self.actions[:-1]
ReturnedWhole(actions) == actions

Returned(actions) == SubSeq(actions, 1, Len(actions) - 1)

\* The object that the backup called from sense_act_learn pickles: self as it
\* is once the actions have been chosen (before: self on entry to the call,
\* after: self with the new timestep, levels and actions).
CheckpointedBeforeActions(before, after) ==
    [after EXCEPT !.actions = before.actions]

Checkpointed(before, after) == after

SenseActLearn ==
    /\ pc = "running"
    /\ brain.timestep < MaxTimestep
    /\ \E sensors \in SensorReadings(brain.num_sensors), reward \in Rewards,
          goals \in GoalChoices(brain) :
         LET self == Stepped(brain, sensors, reward, goals)
             call == [op      |-> "sense_act_learn",
                      sensors |-> sensors,
                      reward  |-> reward,
                      fed     |-> ElementActivities(sensors, brain.actions),
                      resumed |-> (last_call.op = "restore")]
         IN
           /\ brain' = self
           /\ IF BackupDue(self)
              THEN \E run \in BackupRuns(Checkpointed(brain, self),
                                        primary_file, backup_file) :
                     /\ RunBackup(Checkpointed(brain, self), run)
                     /\ last_call' =
                          IF BackupReturns(run)
                          THEN call @@ [returned |-> Returned(self.actions),
                                        raised   |-> "none"]
                          ELSE call @@ [returned |-> << >>,
                                        raised   |-> run.exc]
              ELSE /\ last_call' = call @@ [returned |-> Returned(self.actions),
                                            raised   |-> "none"]
                   /\ UNCHANGED << pc, primary_file, backup_file, config,
                                   this_save, ever_saved, events >>

\* ------------------------------------------------- Brain.report_performance
\* The brain as report_performance leaves it: the method assigns to no
\* attribute of self.
ReportedForgetsActions(self) ==
    [self EXCEPT !.actions = Zeros(Len(self.actions))]

Reported(self) == self

ReportPerformance ==
    /\ pc = "running"
    /\ last_call' = [op       |-> "report_performance",
                     returned |-> AffectVisualize(brain.affect, brain.timestep),
                     raised   |-> "none"]
    /\ brain' = Reported(brain)
    /\ UNCHANGED << pc, primary_file, backup_file, config, this_save,
                    ever_saved, events >>

\* ------------------------------------------------------------ Brain.restore
\* open(self.pickle_filename, 'rb') and pickle.load: the object loaded, or
\* the exception.  A missing file cannot be opened; a pickle that stops
\* before its STOP opcode cannot be loaded.
Loads(file) ==
    IF ~file.exists THEN { [exc |-> "IOError", obj |-> << >>] }
    ELSE IF Complete(file.bytes)
         THEN { [exc |-> "none", obj |-> Unpickle(file.bytes)] }
    ELSE IF Len(file.bytes) = 0
         THEN { [exc |-> "EOFError", obj |-> << >>] }
    ELSE { [exc |-> e, obj |-> << >>] : e \in {"EOFError", "UnpicklingError"} }

\* The except clauses of restore.
RestoreCaught(exc) == exc = "IOError" \/ exc \in PickleErrors

\* The comparison of the loaded brain's channels with those of self.
SensorsOnly(loaded, self) == loaded.num_sensors = self.num_sensors

Compatible(loaded, self) ==
    /\ loaded.num_sensors = self.num_sensors
    /\ loaded.num_actions = self.num_actions

\* The file restore opens: self.pickle_filename, whatever is in the .bak file.
RestoreFallsBack(primary, backup) ==
    IF \A ld \in Loads(primary) : ld.exc # "none" THEN backup ELSE primary

RestoreReads(primary, backup) == primary

\* restored_brain when the load went through.
Accepted(loaded, self) == IF Compatible(loaded, self) THEN loaded ELSE self

\* brain = brain.restore(), called on the brain just constructed: the process
\* goes on with the brain returned.
Restore ==
    /\ pc = "running"
    /\ last_call.op = "construct"
    /\ \E ld \in Loads(RestoreReads(primary_file, backup_file)) :
         IF ld.exc = "none"
         THEN /\ brain' = Accepted(ld.obj, brain)
              /\ last_call' = [op |-> "restore", self |-> brain,
                               returned |-> Accepted(ld.obj, brain),
                               raised |-> "none"]
              /\ pc' = pc
         ELSE IF RestoreCaught(ld.exc)
         THEN /\ brain' = brain
              /\ last_call' = [op |-> "restore", self |-> brain,
                               returned |-> brain, raised |-> "none"]
              /\ pc' = pc
         ELSE /\ brain' = brain
              /\ last_call' = [op |-> "restore", self |-> brain,
                               returned |-> << >>, raised |-> ld.exc]
              /\ pc' = Ended(ld.exc)
    /\ UNCHANGED << primary_file, backup_file, config, this_save,
                    ever_saved, events >>

\* ----------------------------------------------------------------- process
\* The process is over (it returned, was interrupted or crashed) and a new one
\* constructs Brain(num_sensors, num_actions); the files are still there.
Construct ==
    /\ events < MaxEvents
    /\ events' = events + 1
    /\ \E c \in Configs :
         /\ config' = c
         /\ brain' = New(c[1], c[2])
         /\ last_call' = [op |-> "construct", raised |-> "none"]
    /\ pc' = "running"
    /\ UNCHANGED << primary_file, backup_file, this_save, ever_saved >>

Init ==
    /\ config = FirstConfig
    /\ brain = New(FirstConfig[1], FirstConfig[2])
    /\ last_call = [op |-> "construct", raised |-> "none"]
    /\ pc = "running"
    /\ primary_file = NoFile
    /\ backup_file = NoFile
    /\ this_save = NoSave
    /\ ever_saved = FALSE
    /\ events = 0

Next ==
    \/ SenseActLearn
    \/ Backup
    \/ Restore
    \/ ReportPerformance
    \/ Construct

Spec == Init /\ [][Next]_vars

\* --------------------------------------- the two passes, statement by statement
\* sense_act_learn followed one statement at a time through a hierarchy of
\* several levels.  Brain.__init__ builds levels = [level_0]; levels above it
\* are the collaborators' to add, and are here from the start.
RECURSIVE LevelStack(_, _)
LevelStack(levels, height) ==
    IF Len(levels) >= height THEN levels
    ELSE LET top == levels[Len(levels)]
         IN  LevelStack(Append(levels, LevelNew(Len(levels), top.num_sequences,
                                                3 * top.num_sequences)),
                        height)

WithLevels(self, height) ==
    [self EXCEPT !.levels = LevelStack(self.levels, height)]

\* Where control is once levels[i - 1] (the i-th level) has been stepped: the
\* for loop over the levels goes on to the next level, and only when it is
\* exhausted does the loop that passes the goals down begin, at the level
\* below the top one.
AfterStepLeavesLoop(i, height) ==
    IF height > 1 THEN [pc |-> "top_down", i |-> height - 1]
    ELSE [pc |-> "select", i |-> 0]

AfterStep(i, height) ==
    IF i < height THEN [pc |-> "bottom_up", i |-> i + 1]
    ELSE IF height > 1 THEN [pc |-> "top_down", i |-> height - 1]
    ELSE [pc |-> "select", i |-> 0]

\* Where control is once levels[i - 1].sequence_goals has been assigned.
AfterGoal(i) ==
    IF i > 1 THEN [pc |-> "top_down", i |-> i - 1]
    ELSE [pc |-> "select", i |-> 0]

\* One entry of the record of what a call has done so far.
Event(ev, level, input, output) ==
    [ev |-> ev, level |-> level, input |-> input, output |-> output]

\* The call begins: timestep, satisfaction and the element activities for
\* levels[0].
Call ==
    /\ pc = "running"
    /\ brain.timestep < MaxTimestep
    /\ \E sensors \in SensorReadings(brain.num_sensors), reward \in Rewards,
          goals \in GoalChoices(brain) :
         LET affect == AffectUpdate(brain.affect, reward)
             fed    == ElementActivities(sensors, brain.actions)
         IN
           /\ brain' = [brain EXCEPT
                          !.timestep     = NextTimestep(brain.timestep),
                          !.affect       = affect,
                          !.satisfaction = AffectSatisfaction(affect)]
           /\ last_call' = [op      |-> "sense_act_learn",
                            sensors |-> sensors,
                            reward  |-> reward,
                            fed     |-> fed,
                            before  |-> brain,
                            goals   |-> goals,
                            i       |-> 1,
                            element_activities |-> fed,
                            trace    |-> << >>,
                            returned |-> << >>,
                            raised   |-> "none"]
    /\ pc' = "bottom_up"
    /\ UNCHANGED << primary_file, backup_file, config, this_save, ever_saved,
                    events >>

\* One turn of the loop over the levels.
StepLevel ==
    /\ pc = "bottom_up"
    /\ LET i    == last_call.i
           st   == LevelStep(brain.levels[i], last_call.element_activities,
                             last_call.reward, brain.satisfaction,
                             last_call.goals[i])
           next == AfterStep(i, Len(brain.levels))
       IN
         /\ brain' = [brain EXCEPT !.levels[i] = st.level]
         /\ last_call' =
              [last_call EXCEPT
                 !.element_activities = st.out,
                 !.trace = Append(@, Event("step", i - 1,
                                           last_call.element_activities,
                                           st.out)),
                 !.i = next.i]
         /\ pc' = next.pc
    /\ UNCHANGED << primary_file, backup_file, config, this_save, ever_saved,
                    events >>

\* One turn of the loop that passes the goals back down.
PassGoalDown ==
    /\ pc = "top_down"
    /\ LET i    == last_call.i
           next == AfterGoal(i)
       IN
         /\ brain' = [brain EXCEPT !.levels = PassGoal(brain.levels, i)]
         /\ last_call' =
              [last_call EXCEPT
                 !.trace = Append(@, Event("goal", i - 1, << >>, << >>)),
                 !.i = next.i]
         /\ pc' = next.pc
    /\ UNCHANGED << primary_file, backup_file, config, this_save, ever_saved,
                    events >>

\* The rest of the call: the actions are chosen, the brain is backed up when
\* that is due, and the actions are returned.
ChooseActions ==
    /\ pc = "select"
    /\ LET self == [brain EXCEPT !.actions = brain.levels[1].element_goals]
       IN
         /\ brain' = self
         /\ IF BackupDue(self)
            THEN \E run \in BackupRuns(self, primary_file, backup_file) :
                   /\ RunBackup(self, run)
                   /\ last_call' =
                        IF BackupReturns(run)
                        THEN [last_call EXCEPT
                                !.returned = Returned(self.actions)]
                        ELSE [last_call EXCEPT !.raised = run.exc]
            ELSE /\ last_call' = [last_call EXCEPT
                                    !.returned = Returned(self.actions)]
                 /\ pc' = "running"
                 /\ UNCHANGED << primary_file, backup_file, config, this_save,
                                 ever_saved, events >>

InitLevels ==
    /\ config = FirstConfig
    /\ brain \in { WithLevels(New(FirstConfig[1], FirstConfig[2]), height) :
                     height \in 1..MaxHeight }
    /\ pc = "running"
    /\ primary_file = NoFile
    /\ backup_file = NoFile
    /\ last_call = [op |-> "construct", raised |-> "none"]
    /\ this_save = NoSave
    /\ ever_saved = FALSE
    /\ events = 0

NextLevels ==
    \/ Call
    \/ StepLevel
    \/ PassGoalDown
    \/ ChooseActions

SpecLevels == InitLevels /\ [][NextLevels]_vars

\* A call of sense_act_learn has returned.
CallReturned ==
    /\ pc = "running"
    /\ last_call.op = "sense_act_learn"
    /\ last_call.raised = "none"

\* ------------------------------------------------------------------- claims
\* The primary file cannot be loaded: it is missing or stops before STOP.
PrimaryUnreadable == \A ld \in Loads(primary_file) : ld.exc # "none"

C2_PrimaryIntact ==
    (pc = "interrupted" /\ this_save.stopped = "second") =>
        /\ this_save.snap = brain
        /\ primary_file.exists
        /\ Complete(primary_file.bytes)
        /\ Loads(primary_file) = { [exc |-> "none", obj |-> this_save.snap] }

C2_Witness ==
    /\ pc = "interrupted"
    /\ this_save.stopped = "second"
    /\ ~Complete(backup_file.bytes)
    /\ brain.timestep = 2
    /\ brain.actions = Ones(brain.num_actions)

\* C3 as stated: when the process is interrupted during the first (primary)
\* write of a save, and some earlier save cycle completed, the backup file
\* still holds a complete, loadable snapshot.
C3_BackupLoadableAfterAnyEarlierSave ==
    (pc = "interrupted" /\ this_save.stopped = "first" /\ ever_saved) =>
        \E ld \in Loads(backup_file) : ld.exc = "none"

\* C3 as amended: when the process is interrupted during the first (primary)
\* write of a save, and the save cycle just before it completed both writes,
\* the backup file still loads to exactly the snapshot of that cycle.
C3_BackupHoldsPreviousCycle ==
    [][ ( /\ pc = "running"
          /\ pc' = "interrupted"
          /\ this_save'.stopped = "first"
          /\ this_save.success )
        => /\ backup_file' = backup_file
           /\ Loads(backup_file') = { [exc |-> "none", obj |-> this_save.snap] }
      ]_vars

C3_Witness ==
    /\ pc = "interrupted"
    /\ this_save.stopped = "first"
    /\ events = 2
    /\ PrimaryUnreadable
    /\ \E ld \in Loads(backup_file) :
         /\ ld.exc = "none"
         /\ ld.obj.timestep = 1
         /\ brain.timestep = 2

\* C4: restore called after a successful save, in a brain constructed with
\* the same num_sensors and num_actions, returns the loaded brain, and that
\* brain (timestep, actions, levels, affect and all) is the brain as it was
\* when it was saved.
C4_RoundTrip ==
    ( /\ last_call.op = "restore"
      /\ this_save.success
      /\ Compatible(this_save.snap, last_call.self) )
    => /\ last_call.raised = "none"
       /\ last_call.returned = this_save.snap
       /\ brain = this_save.snap

C4_Witness ==
    /\ last_call.op = "restore"
    /\ this_save.success
    /\ brain = this_save.snap
    /\ brain # last_call.self
    /\ brain.timestep = 2
    /\ brain.actions = Ones(brain.num_actions)
    /\ brain.affect.cumulative_reward > 0

\* C5 as amended: when the primary file loads but the loaded brain's num_sensors or
\* num_actions differs from that of the brain restore is called on, restore
\* returns that brain itself (nothing restored), which is still as constructed.
C5_MismatchKeepsFresh ==
    \A ld \in Loads(primary_file) :
        ( /\ last_call.op = "restore"
          /\ ld.exc = "none"
          /\ \/ ld.obj.num_sensors # last_call.self.num_sensors
             \/ ld.obj.num_actions # last_call.self.num_actions )
        => /\ last_call.raised = "none"
           /\ last_call.returned = last_call.self
           /\ brain = last_call.self
           /\ brain = New(config[1], config[2])
           /\ pc = "running"

\* C5 as stated: on such a mismatch restore returns None, a value that is not
\* the brain it was called on.
C5_MismatchReturnsNone ==
    \A ld \in Loads(primary_file) :
        ( /\ last_call.op = "restore"
          /\ ld.exc = "none"
          /\ ~Compatible(ld.obj, last_call.self) )
        => /\ last_call.raised = "none"
           /\ last_call.returned # last_call.self

C5_Witness ==
    /\ last_call.op = "restore"
    /\ \E ld \in Loads(primary_file) :
         /\ ld.exc = "none"
         /\ ld.obj.num_sensors = brain.num_sensors
         /\ ld.obj.num_actions # brain.num_actions
         /\ ld.obj.timestep > 0
    /\ brain = New(config[1], config[2])

\* C6: whenever the primary file cannot be loaded, because it is missing or
\* because it was truncated by an interrupted write, restore does not raise:
\* it returns the brain it was called on and the process goes on.
C6_RestoreNeverRaises ==
    (last_call.op = "restore" /\ PrimaryUnreadable) =>
        /\ last_call.raised = "none"
        /\ last_call.returned = last_call.self
        /\ pc = "running"

C8_RestoreFallsBackToBackup ==
    \A ld \in Loads(backup_file) :
        ( /\ last_call.op = "restore"
          /\ ever_saved
          /\ this_save.stopped = "first"
          /\ PrimaryUnreadable
          /\ ld.exc = "none"
          /\ Compatible(ld.obj, last_call.self) )
        => /\ last_call.raised = "none"
           /\ last_call.returned = ld.obj

\* C8 as amended: after a successful full save cycle the backup file loads on
\* its own to the saved brain (it does so at first, and after every step that
\* changes the file or the record of the last save, hence always), and an
\* interrupted primary write leaves it so;
\* restore never reads it: with the primary file unreadable restore leaves
\* both files as they are and either raises or returns the brain it was
\* called on.
C8_BackupRoundTripsRestoreIgnoresIt ==
    /\ this_save.success =>
          Loads(backup_file) = { [exc |-> "none", obj |-> this_save.snap] }
    /\ [][ ( /\ this_save'.success
             /\ << this_save, backup_file >>' # << this_save, backup_file >> )
           => Loads(backup_file') =
                 { [exc |-> "none", obj |-> this_save'.snap] } ]_vars
    /\ [][ ( /\ this_save.success
             /\ this_save'.stopped = "first"
             /\ pc' = "interrupted" )
           => Loads(backup_file') = Loads(backup_file) ]_vars
    /\ [][ ( /\ last_call.op = "construct"
             /\ last_call'.op = "restore"
             /\ PrimaryUnreadable )
           => /\ backup_file' = backup_file
              /\ primary_file' = primary_file
              /\ brain' = brain
              /\ \/ last_call'.raised # "none"
                 \/ last_call'.returned = brain ]_vars

C8_Witness ==
    /\ last_call.op = "restore"
    /\ ever_saved
    /\ this_save.stopped = "first"
    /\ PrimaryUnreadable
    /\ last_call.raised = "EOFError"
    /\ \E ld \in Loads(backup_file) :
         /\ ld.exc = "none"
         /\ Compatible(ld.obj, last_call.self)
         /\ ld.obj.timestep > 0

\* C9: timestep is 0 in a brain just constructed, every call of
\* sense_act_learn adds exactly 1 to it, and backup, report_performance and a
\* restore that returns the brain it was called on leave it as it is.
C9_TimestepCounts ==
    /\ brain.timestep = 0
    /\ [][ /\ last_call'.op = "construct" => brain'.timestep = 0
           /\ last_call'.op = "sense_act_learn" =>
                 brain'.timestep = brain.timestep + 1
           /\ last_call'.op \in {"backup", "report_performance"} =>
                 brain'.timestep = brain.timestep
           /\ (last_call'.op = "restore" /\ last_call'.raised = "none"
                  /\ last_call'.returned = last_call'.self) =>
                 brain'.timestep = brain.timestep
         ]_vars

C9_Witness ==
    /\ last_call.op = "sense_act_learn"
    /\ brain.timestep = 2
    /\ events = 3

\* C10: the element activities given to levels[0] by a call of
\* sense_act_learn are the sensors of that call followed by the full action
\* vector (reserved entry included) chosen by the call before, num_sensors +
\* num_actions entries in all; before the first call that vector is all zeros.
C10_ActionEcho ==
    /\ brain.actions = Zeros(brain.num_actions)
    /\ [][ /\ last_call'.op = "construct" =>
                 brain'.actions = Zeros(brain'.num_actions)
           /\ last_call'.op = "sense_act_learn" =>
                 /\ last_call'.fed = last_call'.sensors \o brain.actions
                 /\ Len(last_call'.sensors) = brain.num_sensors
                 /\ Len(last_call'.fed) = brain.num_sensors + brain.num_actions
                 /\ brain'.actions = brain'.levels[1].element_goals
                 /\ Len(brain'.actions) = brain.num_actions
         ]_vars

C10_Witness ==
    /\ last_call.op = "sense_act_learn"
    /\ brain.timestep = 2
    /\ last_call.sensors = Zeros(brain.num_sensors)
    /\ last_call.fed = Zeros(brain.num_sensors) \o Ones(brain.num_actions)

\* C11: when a call of sense_act_learn has returned, for every level but the
\* top one, that level's sequence_goals are the element_goals of the level
\* above it, which are those the level above decided on in its step of this
\* same call.
C11_TopDownPropagation ==
    CallReturned =>
        /\ \A i \in 1..(Len(brain.levels) - 1) :
             /\ brain.levels[i].sequence_goals = brain.levels[i + 1].element_goals
             /\ brain.levels[i + 1].element_goals = last_call.goals[i + 1]
        /\ brain.levels = Stepped(last_call.before, last_call.sensors,
                                  last_call.reward, last_call.goals).levels

C11_Witness ==
    /\ CallReturned
    /\ brain.timestep = 2
    /\ Len(brain.levels) = 3
    /\ brain.levels[3].element_goals = Zeros(brain.levels[3].num_elements)
    /\ brain.levels[2].sequence_goals = Zeros(brain.levels[2].num_sequences)
    /\ brain.levels[2].element_goals = Ones(brain.levels[2].num_elements)
    /\ brain.levels[1].sequence_goals = Ones(brain.levels[1].num_sequences)
    /\ last_call.before.levels[1].sequence_goals =
          Zeros(brain.levels[1].num_sequences)

\* C12: a call of sense_act_learn runs backup, before it returns, when the
\* timestep it has just counted up to is an exact multiple of backup_interval,
\* the brain written being the brain as that call leaves it; a call on any
\* other timestep runs no backup and leaves both files as they are.
C12_BackupOnMultiples ==
    [][ ( /\ last_call'.op = "sense_act_learn"
          /\ brain'.timestep = brain.timestep + 1 )
        => IF (brain'.timestep % brain'.backup_interval) = 0
           THEN /\ events' = events + 1
                /\ this_save'.stopped # "never"
                /\ this_save'.snap = brain'
           ELSE /\ events' = events
                /\ this_save' = this_save
                /\ primary_file' = primary_file
                /\ backup_file' = backup_file ]_vars

C12_Witness ==
    /\ last_call.op = "sense_act_learn"
    /\ last_call.raised = "none"
    /\ brain.timestep = BackupInterval
    /\ this_save.success
    /\ this_save.snap = brain
    /\ events = 1
    /\ \E ld \in Loads(primary_file) : ld.exc = "none" /\ ld.obj = brain

C15_PassOrdering ==
    last_call.op = "sense_act_learn" =>
        LET trace  == last_call.trace
            height == Len(brain.levels)
        IN
          /\ \A k \in 1..Len(trace) :
               /\ trace[k].ev = "step" =>
                     /\ trace[k].level = k - 1
                     /\ trace[k].input = IF k = 1 THEN last_call.fed
                                         ELSE trace[k - 1].output
               /\ trace[k].ev = "goal" =>
                     /\ k > height
                     /\ trace[height].ev = "step"
                     /\ trace[height].level = height - 1
                     /\ trace[k].level = (2 * height - 1) - k
          /\ Len(trace) <= 2 * height - 1
          /\ CallReturned => Len(trace) = 2 * height - 1

C15_Witness ==
    /\ CallReturned
    /\ Len(brain.levels) = 3
    /\ Len(last_call.trace) = 5
    /\ last_call.trace[3].ev = "step"
    /\ last_call.trace[3].input = last_call.trace[2].output
    /\ last_call.trace[1].input = Zeros(brain.num_sensors) \o Ones(brain.num_actions)
    /\ last_call.trace[4].ev = "goal"
    /\ last_call.trace[5].level = 0

\* C16: when backup has returned success = True, the primary file and the
\* backup file each hold one complete pickle of the brain as it was when
\* backup ran, attribute for attribute, and each file loaded on its own gives
\* that brain back; right after the call that brain is the brain in memory.
C16_BothFilesHoldSnapshot ==
    /\ this_save.success =>
          /\ \A file \in {primary_file, backup_file} :
               /\ file.exists
               /\ Complete(file.bytes)
               /\ \A k \in 1..Len(Fields) :
                    ItemOf(file.bytes, Fields[k])[2] = this_save.snap[Fields[k]]
               /\ Loads(file) = { [exc |-> "none", obj |-> this_save.snap] }
          /\ primary_file = backup_file
    /\ (last_call.op = "backup" /\ last_call.raised = "none"
           /\ last_call.returned = TRUE) =>
          /\ this_save.success
          /\ this_save.snap = brain
    /\ (last_call.op = "sense_act_learn" /\ last_call.raised = "none"
           /\ BackupDue(brain) /\ this_save.success) =>
          this_save.snap = brain

C16_Witness ==
    /\ last_call.op = "backup"
    /\ last_call.returned = TRUE
    /\ this_save.success
    /\ brain.timestep = 1
    /\ brain.actions = Ones(brain.num_actions)
    /\ Loads(backup_file) = { [exc |-> "none", obj |-> brain] }
    /\ Loads(primary_file) = { [exc |-> "none", obj |-> brain] }

\* C17: a backup that returns, with success True or False, leaves every field
\* of the brain as it was, and a restore whose load fails or whose loaded
\* brain is rejected leaves the brain just constructed as it was; after
\* either the process is still running, so that sense_act_learn can be called
\* next.
C17_PersistenceKeepsLiveState ==
    /\ (last_call.op = "backup" /\ last_call.raised = "none") =>
          /\ brain = this_save.snap
          /\ pc = "running"
    /\ (last_call.op = "sense_act_learn" /\ last_call.raised = "none"
           /\ BackupDue(brain)) =>
          /\ brain = this_save.snap
          /\ pc = "running"
    /\ ( /\ last_call.op = "restore"
         /\ \/ PrimaryUnreadable
            \/ \E ld \in Loads(primary_file) :
                  ld.exc = "none" /\ ~Compatible(ld.obj, last_call.self) ) =>
          /\ brain = last_call.self
          /\ brain = New(config[1], config[2])
          /\ last_call.raised = "none"
          /\ pc = "running"

C19_FailedFirstWriteSkipsSecond ==
    [][ ( /\ last_call'.op \in {"backup", "sense_act_learn"}
          /\ events' = events + 1
          /\ this_save'.stopped = "first"
          /\ last_call'.raised = "none" )
        => /\ backup_file' = backup_file
           /\ ~this_save'.success
           /\ last_call'.op = "backup" => last_call'.returned = FALSE
           /\ pc' = "running" ]_vars

C19_Witness ==
    /\ last_call.op = "backup"
    /\ last_call.raised = "none"
    /\ last_call.returned = FALSE
    /\ this_save.stopped = "first"
    /\ pc = "running"
    /\ ever_saved
    /\ PrimaryUnreadable
    /\ \E ld \in Loads(backup_file) :
         /\ ld.exc = "none"
         /\ ld.obj.timestep < brain.timestep

\* C20: the backup that a call of sense_act_learn runs pickles the brain as
\* the call leaves it, with the timestep the call counted up to and the full
\* actions the call chose; and the first call of sense_act_learn on a brain
\* that restore returned from such a pickle counts on from the pickled
\* timestep, gives levels[0] the sensors followed by the pickled actions, and
\* leaves the brain as the same call would have left the brain that was
\* pickled.
C20_CheckpointAfterActions ==
    [][ /\ ( /\ last_call'.op = "sense_act_learn"
             /\ brain'.timestep = brain.timestep + 1
             /\ BackupDue(brain') )
           => /\ this_save'.snap.timestep = brain.timestep + 1
              /\ this_save'.snap.actions = brain'.levels[1].element_goals
              /\ this_save'.snap = brain'
              /\ this_save'.success =>
                    Loads(primary_file') = { [exc |-> "none", obj |-> brain'] }
        /\ ( /\ last_call.op = "restore"
             /\ last_call.raised = "none"
             /\ this_save.success
             /\ last_call.returned = this_save.snap
             /\ last_call'.op = "sense_act_learn" )
           => /\ brain'.timestep = this_save.snap.timestep + 1
              /\ last_call'.fed = last_call'.sensors \o this_save.snap.actions
              /\ \E goals \in GoalChoices(this_save.snap) :
                    brain' = Stepped(this_save.snap, last_call'.sensors,
                                     last_call'.reward, goals)
      ]_vars

C20_Witness ==
    /\ last_call.op = "sense_act_learn"
    /\ last_call.resumed
    /\ last_call.raised = "none"
    /\ events = 2
    /\ this_save.success
    /\ this_save.snap.timestep = BackupInterval
    /\ this_save.snap.actions = Ones(brain.num_actions)
    /\ brain.timestep = BackupInterval + 1
    /\ last_call.fed = last_call.sensors \o Ones(brain.num_actions)

====
